---- MODULE Spec2Model ----
(***************************************************************************)
(* Road-Safety-Intervention-Chatbot: the query orchestration core.         *)
(*                                                                         *)
(*   backend/app/core/orchestrator.py              QueryOrchestrator       *)
(*   backend/app/core/strategies/structured_query.py                       *)
(*                                                 StructuredQueryStrategy *)
(*                                                                         *)
(* Encoding.  A Python Optional is a sequence of length 0 (None) or 1.     *)
(* Confidences are hundredths (0.5 is 50, 1.0 is 100).  Python lists and   *)
(* tuples are sequences.  A string is an atom; the two string operations   *)
(* the code uses (lower(), substring test) are the tables Lower and the    *)
(* query's set of lowercased substrings.                                   *)
(***************************************************************************)
EXTENDS Integers, Sequences, FiniteSets, TLC

VARIABLES
    store,      \* DatabaseService rows, in catalogue order
    cache,      \* CacheService: cache key -> Optional SearchResponse
    req,        \* the SearchRequest of the last process_query call (Optional)
    resp,       \* what that call returned (Optional SearchResponse)
    ran,        \* the pipeline steps that call executed, in order
    calls,      \* number of process_query calls so far
    fnArgs,     \* arguments of the function under test (function specifications)
    fnOut,      \* its result (Optional)
    exc,        \* the exception the last call raised to its caller (Optional)
    llmCalls,   \* the GeminiService calls the last process_query call made
    total_input_tokens,   \* GeminiService.total_input_tokens
    total_output_tokens,  \* GeminiService.total_output_tokens
    pending,    \* GeminiService calls requested and not yet run
    reported,   \* usage the provider reported to the calls run so far
    inflight,   \* the process_query calls of an event loop, in start order
    client      \* a frontend APIClient.search call and its _make_request loop

orchVars == <<cache, req, resp, ran, calls, llmCalls>>
fnVars == <<fnArgs, fnOut>>
tokVars == <<total_input_tokens, total_output_tokens, pending, reported>>
extVars == <<inflight, client>>
vars == <<store, orchVars, fnVars, exc, tokVars, extVars>>

(***************************************************************************)
(* Bounds                                                                  *)
(***************************************************************************)
MaxRows == 3          \* rows in the tabular store
MaxCalls == 2         \* process_query calls in one behaviour
MaxLimit == 2         \* largest max_results a request carries

(***************************************************************************)
(* Optional values and Python truthiness                                   *)
(***************************************************************************)
None == <<>>
Some(x) == <<x>>
IsSome(o) == Len(o) = 1
TruthyList(o) == Len(o) = 1 /\ Len(o[1]) > 0
TruthyInt(o) == Len(o) = 1 /\ o[1] # 0
TruthyStr(o) == Len(o) = 1 /\ o[1] # ""

Range(s) == {s[i] : i \in 1..Len(s)}
Take(s, n) == SubSeq(s, 1, IF n < Len(s) THEN n ELSE Len(s))
Min(a, b) == IF a < b THEN a ELSE b
Max(a, b) == IF a > b THEN a ELSE b

(***************************************************************************)
(* Strings: str.lower() on the vocabulary of the catalogue                 *)
(***************************************************************************)
Lower(s) ==
    CASE s = "Faded" -> "faded"
      [] s = "Damaged" -> "damaged"
      [] s = "Missing" -> "missing"
      [] s = "Road Sign" -> "road sign"
      [] s = "Road Marking" -> "road marking"
      [] s = "STOP Sign" -> "stop sign"
      [] s = "Zebra Crossing" -> "zebra crossing"
      [] s = "Speed Limit Sign" -> "speed limit sign"
      [] s = "Faded STOP sign" -> "faded stop sign"
      [] OTHER -> s

(* int(x): Some(n) when x is the decimal spelling of n, None where Python  *)
(* raises ValueError/TypeError.                                            *)
ParseInt(x) ==
    CASE x = "1" -> Some(1)
      [] x = "2" -> Some(2)
      [] x = "3" -> Some(3)
      [] x = "4" -> Some(4)
      [] OTHER -> None

(* id.split('_')[-1] *)
LastPart(id) ==
    CASE id = "int_1" -> "1"
      [] id = "int_2" -> "2"
      [] id = "int_3" -> "3"
      [] OTHER -> id

(***************************************************************************)
(* The catalogue.  sno_key is the spelling of the sequence-number column   *)
(* in the row ("absent" when the row has none), sno_raw its stored value.  *)
(***************************************************************************)
Catalogue == <<
    [id |-> "int_1", sno_key |-> "s_no", sno_raw |-> "1",
     problem |-> "Faded", category |-> "Road Sign", type |-> "STOP Sign",
     speed_min |-> Some(40), speed_max |-> Some(80), code |-> "IRC:67-2022"],
    [id |-> "int_2", sno_key |-> "S. No.", sno_raw |-> "2",
     problem |-> "Damaged", category |-> "Road Marking", type |-> "Zebra Crossing",
     speed_min |-> None, speed_max |-> None, code |-> "IRC:35-2015"],
    [id |-> "row4", sno_key |-> "absent", sno_raw |-> "",
     problem |-> "Missing", category |-> "Road Sign", type |-> "STOP Sign",
     speed_min |-> Some(20), speed_max |-> Some(50), code |-> "IRC:67-2022"],
    [id |-> "int_3", sno_key |-> "S. No.", sno_raw |-> "n/a",
     problem |-> "Faded", category |-> "Road Sign", type |-> "Speed Limit Sign",
     speed_min |-> None, speed_max |-> None, code |-> "IRC:67-2022"]
>>

RowIds == {Catalogue[i].id : i \in 1..Len(Catalogue)}
PickRows(S) == SelectSeq(Catalogue, LAMBDA r : r.id \in S)
Stores == {PickRows(S) : S \in {T \in SUBSET RowIds : Cardinality(T) <= MaxRows}}

(***************************************************************************)
(* Queries: the text and the lowercased strings that are substrings of     *)
(* query.lower() (the empty string always is).                             *)
(***************************************************************************)
QFaded == [text |-> "Faded STOP sign", subs |-> {"", "faded", "stop sign"}]
QMarking == [text |-> "damaged road marking", subs |-> {"", "damaged", "road marking"}]
QNone == [text |-> "xyzabc123nonexistent", subs |-> {""}]
QWorn == [text |-> "faded, damaged or missing stop sign",
          subs |-> {"", "faded", "damaged", "missing", "stop sign"}]
Queries == {QFaded, QMarking, QNone, QWorn}

(***************************************************************************)
(* Filters: the dict the strategies read with filters.get(...)             *)
(***************************************************************************)
NoFilters == [category |-> None, problem |-> None, speed_min |-> None,
              speed_max |-> None, irc_code |-> None]
FilterOf(c, p, lo, hi) == [category |-> c, problem |-> p, speed_min |-> lo,
                           speed_max |-> hi, irc_code |-> None]

(***************************************************************************)
(* Tabular-store collaborator (DatabaseService)                            *)
(***************************************************************************)
TextMatches(query, row) ==
    \/ Lower(row.problem) \in query.subs
    \/ Lower(row.category) \in query.subs
    \/ Lower(row.type) \in query.subs

text_search(rows, query, limit) ==
    Take(SelectSeq(rows, LAMBDA r : TextMatches(query, r)), limit)

FilterMatches(row, category, problem, speed_min, speed_max, irc_code) ==
    /\ TruthyList(category) => row.category \in Range(category[1])
    /\ TruthyList(problem) => row.problem \in Range(problem[1])
    /\ IsSome(speed_min) => (IsSome(row.speed_max) /\ row.speed_max[1] >= speed_min[1])
    /\ IsSome(speed_max) => (IsSome(row.speed_min) /\ row.speed_min[1] <= speed_max[1])
    /\ TruthyStr(irc_code) => row.code = irc_code[1]

search_by_filters(rows, category, problem, speed_min, speed_max, irc_code, limit) ==
    Take(SelectSeq(rows, LAMBDA r :
            FilterMatches(r, category, problem, speed_min, speed_max, irc_code)),
         limit)

get_all(rows, limit) == Take(rows, limit)

(***************************************************************************)
(* StructuredQueryStrategy                                                 *)
(***************************************************************************)
BaseScore == 50
ProblemBonus == 20
CategoryBonus == 15
TypeBonus == 15
FilterBonus == 10
MaxScore == 100

(* Mutant of _calculate_confidence: the score is returned without the cap *)
CalculateConfidence_NoCap(query, result, filters) ==
    BaseScore
    + (IF Lower(result.problem) \in query.subs THEN ProblemBonus ELSE 0)
    + (IF Lower(result.category) \in query.subs THEN CategoryBonus ELSE 0)
    + (IF Lower(result.type) \in query.subs THEN TypeBonus ELSE 0)
    + (IF TruthyList(filters.category)
          /\ result.category \in Range(filters.category[1])
       THEN FilterBonus ELSE 0)
    + (IF TruthyList(filters.problem)
          /\ result.problem \in Range(filters.problem[1])
       THEN FilterBonus ELSE 0)

(* _calculate_confidence: base 0.5 plus the bonuses, capped at 1.0 *)
CalculateConfidence(query, result, filters) ==
    LET s1 == BaseScore
              + (IF Lower(result.problem) \in query.subs THEN ProblemBonus ELSE 0)
              + (IF Lower(result.category) \in query.subs THEN CategoryBonus ELSE 0)
              + (IF Lower(result.type) \in query.subs THEN TypeBonus ELSE 0)
        s2 == s1
              + (IF TruthyList(filters.category)
                    /\ result.category \in Range(filters.category[1])
                 THEN FilterBonus ELSE 0)
              + (IF TruthyList(filters.problem)
                    /\ result.problem \in Range(filters.problem[1])
                 THEN FilterBonus ELSE 0)
    IN Min(s2, MaxScore)

(* _get_match_reason: the reasons, in the order ", ".join writes them *)
GetMatchReason(result, filters) ==
    LET reasons ==
            (IF TruthyList(filters.category) THEN <<"Category filter match">> ELSE <<>>)
            \o (IF TruthyList(filters.problem) THEN <<"Problem type filter match">> ELSE <<>>)
            \o (IF TruthyInt(filters.speed_min) \/ TruthyInt(filters.speed_max)
                THEN <<"Speed range match">> ELSE <<>>)
    IN IF reasons = <<>> THEN <<"Text search match">> ELSE reasons

(* The if/elif/elif chain of lines 59-69: Some(s_no), or None where int()  *)
(* raises outside the inner try.  A row that already has the key 's_no'    *)
(* is left as it is, and the Intervention model then needs an integer there.*)
NormalizeSNo(row) ==
    CASE row.sno_key = "S. No." -> ParseInt(row.sno_raw)
      [] row.sno_key = "S.No." -> ParseInt(row.sno_raw)
      [] row.sno_key = "absent" ->
            LET n == ParseInt(LastPart(row.id))
            IN IF IsSome(n) THEN n ELSE Some(0)
      [] OTHER -> ParseInt(row.sno_raw)

RowRaises(row) == ~IsSome(NormalizeSNo(row))

(* search() builds a candidate only from a row whose normalization did not *)
(* raise; for the other rows s_no reads 0 here.                            *)
SNoOf(row) == IF IsSome(NormalizeSNo(row)) THEN NormalizeSNo(row)[1] ELSE 0

Candidate(query, row, filters) ==
    [intervention |-> [id |-> row.id, s_no |-> SNoOf(row),
                       problem |-> row.problem, category |-> row.category,
                       type |-> row.type, speed_min |-> row.speed_min,
                       speed_max |-> row.speed_max, code |-> row.code],
     confidence |-> CalculateConfidence(query, row, filters),
     relevance_score |-> CalculateConfidence(query, row, filters),
     match_reason |-> Some(GetMatchReason(row, filters))]

FiltersActive(filters) ==
    \/ TruthyList(filters.category)
    \/ TruthyList(filters.problem)
    \/ TruthyInt(filters.speed_min)
    \/ TruthyInt(filters.speed_max)
    \/ TruthyStr(filters.irc_code)

(* Mutant of the row selection: the filtered rows never replace a non-empty *)
(* text-search baseline.                                                   *)
SelectRows_KeepText(rows, query, filters, max_results) ==
    LET text == text_search(rows, query, max_results * 2)
        filtered == search_by_filters(rows, filters.category, filters.problem,
                                      filters.speed_min, filters.speed_max,
                                      filters.irc_code, max_results * 2)
        results == IF FiltersActive(filters) /\ text = <<>> THEN filtered ELSE text
    IN IF results = <<>> THEN get_all(rows, max_results) ELSE results

(* The rows search() settles on before building candidates (lines 28-51) *)
SelectRows(rows, query, filters, max_results) ==
    LET text == text_search(rows, query, max_results * 2)
        filtered == search_by_filters(rows, filters.category, filters.problem,
                                      filters.speed_min, filters.speed_max,
                                      filters.irc_code, max_results * 2)
        results == IF FiltersActive(filters) /\ filtered # <<>> THEN filtered ELSE text
    IN IF results = <<>> THEN get_all(rows, max_results) ELSE results

(* search(): the candidates, or [] when anything in the try block raised *)
StructuredSearch(rows, query, filters, max_results) ==
    LET results == SelectRows(rows, query, filters, max_results)
    IN IF \E i \in 1..Len(results) : RowRaises(results[i])
       THEN <<>>
       ELSE [i \in 1..Len(results) |-> Candidate(query, results[i], filters)]

(* The try block of search() (lines 27-86): the exception it ends with     *)
(* (Optional) and the candidates.  db_ok is FALSE when the DatabaseService  *)
(* call of line 28 raises.                                                 *)
SearchTry(rows, query, filters, max_results, db_ok) ==
    LET results == SelectRows(rows, query, filters, max_results)
    IN IF ~db_ok THEN [exception |-> Some("Exception"), value |-> <<>>]
       ELSE IF \E i \in 1..Len(results) : RowRaises(results[i])
            THEN [exception |-> Some("ValueError"), value |-> <<>>]
            ELSE [exception |-> None,
                  value |-> [i \in 1..Len(results) |->
                                Candidate(query, results[i], filters)]]

(* Mutant of search(): without the except clause of lines 88-90 *)
SearchCall_NoExcept(rows, query, filters, max_results, db_ok) ==
    SearchTry(rows, query, filters, max_results, db_ok)

(* search() as its caller sees it: `except Exception` logs and returns []  *)
SearchCall(rows, query, filters, max_results, db_ok) ==
    [exception |-> None,
     value |-> IF db_ok THEN StructuredSearch(rows, query, filters, max_results)
               ELSE <<>>]

(* The filters search() is tried on *)
CategoryChoices == {None, Some(<<"Road Sign">>), Some(<<"Road Marking">>)}
ProblemChoices == {None, Some(<<"Faded">>), Some(<<"Damaged", "Missing">>)}
SpeedMinChoices == {None, Some(0), Some(60)}
SpeedMaxChoices == {None, Some(30)}
IrcCodeOnly == [NoFilters EXCEPT !.irc_code = Some("IRC:67-2022")]
StrategyFilters ==
    {FilterOf(c, p, lo, hi) : c \in CategoryChoices, p \in ProblemChoices,
                              lo \in SpeedMinChoices, hi \in SpeedMaxChoices}
    \cup {IrcCodeOnly}

(***************************************************************************)
(* QueryOrchestrator: _select_strategy and _merge_filters                  *)
(***************************************************************************)
SpeedWindow == 20

(* Mutant of _select_strategy: the default branch returns the RAG strategy *)
SelectStrategy_DefaultRag(strategy_name) ==
    IF strategy_name = Some("rag") THEN "rag"
    ELSE IF strategy_name = Some("structured") THEN "structured"
    ELSE IF strategy_name = Some("hybrid") THEN "hybrid"
    ELSE "rag"

(* _select_strategy: the name of the strategy object it returns *)
SelectStrategy(strategy_name) ==
    IF strategy_name = Some("rag") THEN "rag"
    ELSE IF strategy_name = Some("structured") THEN "structured"
    ELSE IF strategy_name = Some("hybrid") THEN "hybrid"
    ELSE "hybrid"

(* Mutant of _merge_filters: the lower end of the window is not clamped at 0 *)
MergeFilters_NoClamp(filters, entities) ==
    LET f1 == IF TruthyStr(entities.category) /\ ~TruthyList(filters.category)
              THEN [filters EXCEPT !.category = Some(<<entities.category[1]>>)]
              ELSE filters
        f2 == IF TruthyList(entities.problems) /\ ~TruthyList(f1.problem)
              THEN [f1 EXCEPT !.problem = entities.problems]
              ELSE f1
    IN IF TruthyInt(entities.speed)
          /\ ~TruthyInt(f2.speed_min) /\ ~TruthyInt(f2.speed_max)
       THEN [f2 EXCEPT !.speed_min = Some(entities.speed[1] - SpeedWindow),
                       !.speed_max = Some(entities.speed[1] + SpeedWindow)]
       ELSE f2

(* _merge_filters: three independent updates of the filters dict *)
MergeFilters(filters, entities) ==
    LET f1 == IF TruthyStr(entities.category) /\ ~TruthyList(filters.category)
              THEN [filters EXCEPT !.category = Some(<<entities.category[1]>>)]
              ELSE filters
        f2 == IF TruthyList(entities.problems) /\ ~TruthyList(f1.problem)
              THEN [f1 EXCEPT !.problem = entities.problems]
              ELSE f1
    IN IF TruthyInt(entities.speed)
          /\ ~TruthyInt(f2.speed_min) /\ ~TruthyInt(f2.speed_max)
       THEN [f2 EXCEPT !.speed_min = Some(Max(0, entities.speed[1] - SpeedWindow)),
                       !.speed_max = Some(entities.speed[1] + SpeedWindow)]
       ELSE f2

(* ExtractedEntities(): every field empty *)
NoEntities == [problems |-> None, category |-> None, speed |-> None]

(* No function call and no process_query call yet *)
NoArgs == [fn |-> "none"]

(* No APIClient.search call *)
NoClient == [phase |-> "idle"]

InitOrchIdle ==
    /\ cache = {}
    /\ req = None
    /\ resp = None
    /\ ran = <<>>
    /\ calls = 0
    /\ exc = None
    /\ llmCalls = <<>>
    /\ inflight = <<>>
    /\ client = NoClient

(* GeminiService.__init__: both counters start at 0; no call requested *)
NoUsage == [input |-> 0, output |-> 0]
InitTokensIdle ==
    /\ total_input_tokens = 0
    /\ total_output_tokens = 0
    /\ pending = {}
    /\ reported = NoUsage

(***************************************************************************)
(* RAGSearchStrategy and HybridFusionStrategy (collaborators)              *)
(***************************************************************************)
SimilarityHigh == 80
SimilarityLow == 35

(* The metadata main.py stores in the vector index for a row *)
VectorMetadata(row) ==
    [id |-> row.id,
     s_no |-> IF row.sno_key = "s_no" /\ IsSome(ParseInt(row.sno_raw))
              THEN ParseInt(row.sno_raw)[1] ELSE 0,
     problem |-> row.problem, category |-> row.category, type |-> row.type,
     speed_min |-> row.speed_min, speed_max |-> row.speed_max, code |-> row.code]

RagCandidate(query, row) ==
    [intervention |-> VectorMetadata(row),
     confidence |-> IF TextMatches(query, row) THEN SimilarityHigh ELSE SimilarityLow,
     relevance_score |-> IF TextMatches(query, row) THEN SimilarityHigh ELSE SimilarityLow,
     match_reason |-> Some(<<"Semantic similarity match">>)]

RECURSIVE InsertByConfidence(_, _)
InsertByConfidence(sorted, x) ==
    IF sorted = <<>> THEN <<x>>
    ELSE IF Head(sorted).confidence >= x.confidence
         THEN <<Head(sorted)>> \o InsertByConfidence(Tail(sorted), x)
         ELSE <<x>> \o sorted

(* Stable sort, descending by confidence *)
RECURSIVE SortByConfidence(_)
SortByConfidence(results) ==
    IF results = <<>> THEN <<>>
    ELSE InsertByConfidence(SortByConfidence(SubSeq(results, 1, Len(results) - 1)),
                            results[Len(results)])

(* Nearest neighbours bounded by max_results, filters applied afterwards *)
RagSearch(rows, query, filters, max_results) ==
    LET all == [i \in 1..Len(rows) |-> RagCandidate(query, rows[i])]
        nearest == Take(SortByConfidence(all), max_results)
    IN SelectSeq(nearest, LAMBDA c :
          /\ TruthyList(filters.category) =>
                c.intervention.category \in Range(filters.category[1])
          /\ TruthyList(filters.problem) =>
                c.intervention.problem \in Range(filters.problem[1]))

HybridSearch(rows, query, filters, max_results) ==
    RagSearch(rows, query, filters, max_results)
        \o StructuredSearch(rows, query, filters, max_results)

StrategySearch(name, rows, query, filters, max_results) ==
    CASE name = "rag" -> RagSearch(rows, query, filters, max_results)
      [] name = "structured" -> StructuredSearch(rows, query, filters, max_results)
      [] OTHER -> HybridSearch(rows, query, filters, max_results)

(***************************************************************************)
(* ResultRanker (collaborator)                                             *)
(***************************************************************************)
BoostStep == 5

apply_boost(results, query) ==
    [i \in 1..Len(results) |->
        [results[i] EXCEPT !.confidence =
            IF Lower(results[i].intervention.type) \in query.subs
            THEN Min(@ + BoostStep, MaxScore) ELSE @]]

(* The first highest-confidence instance of each intervention id *)
BestOfId(results, i) ==
    \A j \in 1..Len(results) :
        results[j].intervention.id = results[i].intervention.id =>
            \/ results[j].confidence < results[i].confidence
            \/ (results[j].confidence = results[i].confidence /\ j >= i)

RECURSIVE KeepBest(_, _)
KeepBest(results, i) ==
    IF i > Len(results) THEN <<>>
    ELSE (IF BestOfId(results, i) THEN <<results[i]>> ELSE <<>>)
         \o KeepBest(results, i + 1)

deduplicate(results) == SortByConfidence(KeepBest(results, 1))

rank_by_confidence(results) == SortByConfidence(results)

(***************************************************************************)
(* GeminiService, CacheService and generate_cache_key (collaborators)      *)
(***************************************************************************)
FullEntities == [problems |-> Some(<<"Damaged">>), category |-> Some("Road Marking"),
                 speed |-> Some(65)]

(* What the provider does in one request: the entities extract_entities    *)
(* returns and whether generate_content succeeds for the synthesis.        *)
(* extract_ok and synthesis_ok: whether the provider call of that step     *)
(* returned (FALSE: it raised); fault: the pipeline step that raises in     *)
(* this request, "none" when no step does.                                 *)
LlmOutcomes ==
    {[entities |-> NoEntities, extract_ok |-> TRUE, synthesis_ok |-> TRUE,
      fault |-> "none"],
     [entities |-> FullEntities, extract_ok |-> TRUE, synthesis_ok |-> TRUE,
      fault |-> "none"],
     [entities |-> NoEntities, extract_ok |-> FALSE, synthesis_ok |-> FALSE,
      fault |-> "none"]}

(* synthesize_recommendation: the text, or the fixed message of its except *)
SynthesizeRecommendation(query, interventions, ok) ==
    IF ok
    THEN [kind |-> "synthesis", query |-> query.text,
          context |-> [i \in 1..Len(interventions) |-> interventions[i].id]]
    ELSE [kind |-> "Error generating detailed recommendation. Please try again.",
          query |-> "", context |-> <<>>]

NormalizeQuery(text) == Lower(text)

generate_cache_key(query, filters) == <<NormalizeQuery(query.text), filters>>

CacheGet(entries, key) ==
    IF \E e \in entries : e[1] = key
    THEN Some((CHOOSE e \in entries : e[1] = key)[2])
    ELSE None

CacheSet(entries, key, value) ==
    {e \in entries : e[1] # key} \cup {<<key, value>>}

(***************************************************************************)
(* QueryOrchestrator.process_query                                         *)
(***************************************************************************)
TopForSynthesis == 3

(* Mutant of lines 84-88: duplicates are dropped in first-seen order and   *)
(* the list is never ordered by confidence                                 *)
PostProcess_Unranked(results, query, max_results) ==
    Take(KeepBest(apply_boost(results, query), 1), max_results)

(* Mutant of lines 84-88: the deduplicate pass is left out *)
PostProcess_NoDedup(results, query, max_results) ==
    Take(rank_by_confidence(apply_boost(results, query)), max_results)

(* Lines 84-88: boost, deduplicate, rank, truncate *)
PostProcess(results, query, max_results) ==
    Take(rank_by_confidence(deduplicate(apply_boost(results, query))), max_results)

(* _convert_to_recommendations *)
ConvertToRecommendations(results) ==
    [i \in 1..Len(results) |->
        [id |-> results[i].intervention.id,
         confidence |-> results[i].confidence,
         problem |-> results[i].intervention.problem,
         category |-> results[i].intervention.category,
         type |-> results[i].intervention.type,
         explanation |-> IF TruthyList(results[i].match_reason)
                         THEN results[i].match_reason[1]
                         ELSE <<"Matched based on query relevance">>,
         irc_code |-> results[i].intervention.code]]

(* Mutant of _generate_synthesis: the empty check of line 207 is left out  *)
GenerateSynthesis_NoEmptyCheck(query, results, ok) ==
    SynthesizeRecommendation(
        query,
        [i \in 1..Len(Take(results, TopForSynthesis)) |-> results[i].intervention],
        ok)

(* _generate_synthesis *)
GenerateSynthesis(query, results, ok) ==
    IF results = <<>>
    THEN [kind |-> "No interventions found matching your query. Please try rephrasing or broadening your search.",
          query |-> "", context |-> <<>>]
    ELSE SynthesizeRecommendation(
            query,
            [i \in 1..Len(Take(results, TopForSynthesis)) |-> results[i].intervention],
            ok)

(* Mutant of line 46: the cached response is never used *)
CacheHit_Never(cached_response) == FALSE

(* if cached_response: (line 46) *)
CacheHit(cached_response) == IsSome(cached_response)

RequestFilters(request) ==
    IF IsSome(request.filters) THEN request.filters[1] ELSE NoFilters

CacheKeyOf(request) == generate_cache_key(request.query, request.filters)

(* Lines 60-109 on a cache miss: the SearchResponse *)
BuildResponse(rows, request, llm) ==
    LET entities == llm.entities
        filters == MergeFilters(RequestFilters(request), entities)
        strategy == SelectStrategy(request.strategy)
        found == StrategySearch(strategy, rows, request.query, filters,
                                request.max_results * 2)
        results == PostProcess(found, request.query, request.max_results)
    IN [query |-> request.query.text,
        results |-> ConvertToRecommendations(results),
        synthesis |-> GenerateSynthesis(request.query, results, llm.synthesis_ok),
        metadata |-> [search_strategy |-> strategy,
                      total_results |-> Len(results),
                      entities_extracted |-> entities]]

(* Mutant of lines 91-123: the response is stored before the synthesis is  *)
(* generated                                                               *)
MissSteps_StoreBeforeSynthesis ==
    <<"cache_get", "extract_entities", "merge_filters", "select_strategy",
      "strategy_search", "apply_boost", "deduplicate", "rank_by_confidence",
      "truncate", "convert_to_recommendations", "cache_set", "generate_synthesis",
      "build_metadata", "log_evaluation_metrics">>

(* The statements of lines 43-123 that a cache miss executes, in order *)
MissSteps ==
    <<"cache_get", "extract_entities", "merge_filters", "select_strategy",
      "strategy_search", "apply_boost", "deduplicate", "rank_by_confidence",
      "truncate", "convert_to_recommendations", "generate_synthesis",
      "build_metadata", "log_evaluation_metrics", "cache_set">>

HitSteps == <<"cache_get">>

RoadSignFaded == FilterOf(Some(<<"Road Sign">>), Some(<<"Faded">>), None, None)
RequestTexts == {<<QFaded, None>>, <<QFaded, Some(RoadSignFaded)>>, <<QNone, None>>}
RequestStrategies == {None, Some("rag"), Some("structured")}
RequestMaxResults == {1, 2}
Requests ==
    {[query |-> t[1], filters |-> t[2], strategy |-> st, max_results |-> m] :
        t \in RequestTexts, st \in RequestStrategies, m \in RequestMaxResults}
OrchStores ==
    {PickRows({"int_1", "int_2", "row4"}), PickRows({"row4"}), Catalogue}

Init ==
    /\ store \in OrchStores
    /\ InitOrchIdle
    /\ InitTokensIdle
    /\ fnArgs = NoArgs
    /\ fnOut = None

(* The steps of MissSteps up to and including the one that raises *)
StepsUpTo(step) ==
    LET n == CHOOSE i \in 1..Len(MissSteps) : MissSteps[i] = step
    IN SubSeq(MissSteps, 1, n)

(* The GeminiService calls of lines 61 and 94 (through _generate_synthesis, *)
(* which calls the provider only for a non-empty result list), as far as   *)
(* the pipeline got.                                                       *)
GeminiCalls(response, llm, steps) ==
    <<[op |-> "extract_entities", ok |-> llm.extract_ok, interventions |-> 0]>>
    \o (IF response.results # <<>> /\ "generate_synthesis" \in Range(steps)
        THEN <<[op |-> "synthesize_recommendation", ok |-> llm.synthesis_ok,
                interventions |-> Len(Take(response.results, TopForSynthesis))]>>
        ELSE <<>>)

(* Mutant of lines 106-123: the response is stored in the cache as soon as *)
(* it is built, before the metrics are logged                              *)
ProcessMiss_CacheEarly(entries, rows, request, llm) ==
    LET response == BuildResponse(rows, request, llm)
        key == CacheKeyOf(request)
    IN IF llm.fault = "none"
       THEN [response |-> Some(response), exception |-> None, steps |-> MissSteps,
             entries |-> CacheSet(entries, key, response),
             llm_calls |-> GeminiCalls(response, llm, MissSteps)]
       ELSE [response |-> None, exception |-> Some("Exception"),
             steps |-> StepsUpTo(llm.fault),
             entries |-> IF llm.fault = "log_evaluation_metrics"
                         THEN CacheSet(entries, key, response) ELSE entries,
             llm_calls |-> GeminiCalls(response, llm, StepsUpTo(llm.fault))]

(* Lines 60-130 on a cache miss.  When a step raises, the except clause of  *)
(* lines 128-130 logs and re-raises: nothing is returned and cache.set      *)
(* (line 123) was not reached.                                             *)
ProcessMiss(entries, rows, request, llm) ==
    LET response == BuildResponse(rows, request, llm)
    IN IF llm.fault = "none"
       THEN [response |-> Some(response), exception |-> None, steps |-> MissSteps,
             entries |-> CacheSet(entries, CacheKeyOf(request), response),
             llm_calls |-> GeminiCalls(response, llm, MissSteps)]
       ELSE [response |-> None, exception |-> Some("Exception"),
             steps |-> StepsUpTo(llm.fault), entries |-> entries,
             llm_calls |-> GeminiCalls(response, llm, StepsUpTo(llm.fault))]

(* process_query for a request and a provider behaviour drawn from the      *)
(* given sets                                                              *)
ProcessQueryOn(requests, outcomes) ==
    /\ calls < MaxCalls
    /\ \E request \in requests, llm \in outcomes :
          LET cache_key == CacheKeyOf(request)
              cached_response == CacheGet(cache, cache_key)
          IN IF CacheHit(cached_response)
             THEN /\ llm = CHOOSE o \in outcomes : TRUE
                  /\ req' = Some(request)
                  /\ resp' = cached_response
                  /\ ran' = HitSteps
                  /\ cache' = cache
                  /\ exc' = None
                  /\ llmCalls' = <<>>
             ELSE \E out \in {ProcessMiss(cache, store, request, llm)} :
                     /\ req' = Some(request)
                     /\ resp' = out.response
                     /\ ran' = out.steps
                     /\ cache' = out.entries
                     /\ exc' = out.exception
                     /\ llmCalls' = out.llm_calls
    /\ calls' = calls + 1
    /\ UNCHANGED <<store, fnVars, tokVars, extVars>>

ProcessQuery == ProcessQueryOn(Requests, LlmOutcomes)

(* CacheService drops an entry: its TTL ran out or the size bound evicted it *)
CacheExpire ==
    /\ \E e \in cache : cache' = cache \ {e}
    /\ UNCHANGED <<store, req, resp, ran, calls, llmCalls, fnVars, exc, tokVars, extVars>>

Next == ProcessQuery \/ CacheExpire

Spec == Init /\ [][Next]_vars

(***************************************************************************)
(* process_query with steps that may raise (SpecFault): the default        *)
(* strategy, one query in two spellings and another query, and a           *)
(* max_results above the synthesis context size.                           *)
(***************************************************************************)
QFadedLower == [text |-> "faded stop sign", subs |-> {"", "faded", "stop sign"}]
FaultSteps == {"apply_boost", "convert_to_recommendations", "log_evaluation_metrics"}
FaultOutcomes ==
    {[o EXCEPT !.fault = f] : o \in LlmOutcomes, f \in {"none"} \cup FaultSteps}
FaultMaxResults == {1, 4}
FaultRequests ==
    {[query |-> q, filters |-> None, strategy |-> None, max_results |-> m] :
        q \in {QFaded, QFadedLower, QNone}, m \in FaultMaxResults}

ProcessQueryFaulty == ProcessQueryOn(FaultRequests, FaultOutcomes)

NextFault == ProcessQueryFaulty \/ CacheExpire

SpecFault == Init /\ [][NextFault]_vars

(***************************************************************************)
(* process_query calls that overlap on one event loop (SpecRace).  A call  *)
(* looks its key up and, on a hit, returns (lines 43-58) before its first  *)
(* await (line 61); the rest of a miss, cache_service.set (line 123)       *)
(* included, runs after that await, so calls that started in between have  *)
(* seen the cache without the entry.                                       *)
(***************************************************************************)
MaxInFlight == 3

RaceRequests ==
    {[query |-> q, filters |-> None, strategy |-> None, max_results |-> 1] :
        q \in {QFaded, QFadedLower, QNone}}

(* The calls that have started and not returned *)
Computing == {i \in 1..Len(inflight) : ~inflight[i].returned}

(* Lines 43-58: the lookup, and the return of a cached response *)
StartQuery ==
    /\ Len(inflight) < MaxInFlight
    /\ \E request \in RaceRequests :
          LET cached_response == CacheGet(cache, CacheKeyOf(request))
          IN inflight' = Append(inflight,
                [request |-> request,
                 open |-> Computing,
                 hit |-> CacheHit(cached_response),
                 returned |-> CacheHit(cached_response),
                 response |-> cached_response])
    /\ UNCHANGED <<store, orchVars, fnVars, exc, tokVars, client>>

(* Lines 60-126 of a call that missed: the response is computed, stored     *)
(* under the call's key and returned                                        *)
FinishQuery ==
    /\ \E i \in Computing, llm \in LlmOutcomes :
          \E out \in {ProcessMiss(cache, store, inflight[i].request, llm)} :
             /\ cache' = out.entries
             /\ inflight' = [inflight EXCEPT ![i].returned = TRUE,
                                             ![i].response = out.response]
    /\ UNCHANGED <<store, req, resp, ran, calls, llmCalls, fnVars, exc, tokVars, client>>

NextRace == StartQuery \/ FinishQuery

SpecRace == Init /\ [][NextRace]_vars

(***************************************************************************)
(* QueryOrchestrator._calculate_relevance_score.  A rate or a confidence   *)
(* of 1.0 is RateOne; the score is in tenths of that unit, so that the     *)
(* weights 0.4, 0.4 and 0.2 are 4, 4 and 2 and every quotient is exact.    *)
(***************************************************************************)
RateOne == 1200
EntityWeight == 4
ConfidenceWeight == 4
FilterWeight == 2
ScoreOne == 10 * RateOne
TopForRelevance == 3

RECURSIVE SumConfidence(_)
SumConfidence(results) ==
    IF results = <<>> THEN 0
    ELSE Head(results).confidence + SumConfidence(Tail(results))

(* Lines 229-234: one match for every top result whose problem is among     *)
(* the extracted problems                                                   *)
ProblemMatches(top, entities) ==
    Len(SelectSeq(top, LAMBDA r : r.intervention.problem \in Range(entities.problems[1])))

(* Lines 225-252: entity_matches and total_entities *)
EntityCounts(top, entities) ==
    LET p == IF TruthyList(entities.problems)
             THEN [matches |-> ProblemMatches(top, entities),
                   total |-> Len(entities.problems[1])]
             ELSE [matches |-> 0, total |-> 0]
        c == IF TruthyStr(entities.category)
             THEN [matches |-> IF \E i \in 1..Len(top) :
                                     top[i].intervention.category = entities.category[1]
                               THEN 1 ELSE 0,
                   total |-> 1]
             ELSE [matches |-> 0, total |-> 0]
        v == IF TruthyInt(entities.speed)
             THEN [matches |-> IF \E i \in 1..Len(top) :
                                     /\ TruthyInt(top[i].intervention.speed_min)
                                     /\ TruthyInt(top[i].intervention.speed_max)
                                     /\ top[i].intervention.speed_min[1] <= entities.speed[1]
                                     /\ entities.speed[1] <= top[i].intervention.speed_max[1]
                               THEN 1 ELSE 0,
                   total |-> 1]
             ELSE [matches |-> 0, total |-> 0]
    IN [matches |-> p.matches + c.matches + v.matches,
        total |-> p.total + c.total + v.total]

(* Lines 258-279: filter_matches and filter_total *)
FilterCounts(top, filters) ==
    LET c == IF TruthyList(filters.category)
             THEN [matches |-> IF \E i \in 1..Len(top) :
                                     top[i].intervention.category
                                        \in Range(filters.category[1])
                               THEN 1 ELSE 0,
                   total |-> 1]
             ELSE [matches |-> 0, total |-> 0]
        p == IF TruthyList(filters.problem)
             THEN [matches |-> IF \E i \in 1..Len(top) :
                                     top[i].intervention.problem
                                        \in Range(filters.problem[1])
                               THEN 1 ELSE 0,
                   total |-> 1]
             ELSE [matches |-> 0, total |-> 0]
    IN [matches |-> c.matches + p.matches, total |-> c.total + p.total]

(* min(1.0, max(0.0, score)) *)
ClampScore(x) == Min(ScoreOne, Max(0, x))

(* _calculate_relevance_score (lines 218-285): the three components and the *)
(* value returned                                                           *)
CalculateRelevanceScore(results, entities, filters) ==
    LET top == Take(results, TopForRelevance)
        e == EntityCounts(top, entities)
        f == FilterCounts(top, filters)
        entity_score == IF e.total > 0 THEN (e.matches * RateOne) \div e.total
                        ELSE RateOne \div 2
        avg_confidence == (SumConfidence(top) * (RateOne \div MaxScore)) \div Len(top)
        filter_match_score == IF f.total > 0 THEN (f.matches * RateOne) \div f.total
                              ELSE RateOne
    IN IF results = <<>>
       THEN [entity_score |-> 0, avg_confidence |-> 0, filter_match_score |-> 0,
             relevance_score |-> 0]
       ELSE [entity_score |-> entity_score, avg_confidence |-> avg_confidence,
             filter_match_score |-> filter_match_score,
             relevance_score |-> ClampScore(EntityWeight * entity_score
                                            + ConfidenceWeight * avg_confidence
                                            + FilterWeight * filter_match_score)]

(***************************************************************************)
(* The functions above, each applied to drawn arguments (SpecFn)           *)
(***************************************************************************)
EntityChoices ==
    [problems : {None, Some(<<>>), Some(<<"Damaged">>)},
     category : {None, Some(""), Some("Road Marking")},
     speed : {None, Some(0), Some(10), Some(65)}]
CallerFilters ==
    {FilterOf(c, p, lo, hi) :
        c \in {None, Some(<<"Road Sign">>)},
        p \in {None, Some(<<"Faded">>)},
        lo \in {None, Some(0), Some(50)},
        hi \in {None, Some(0), Some(100)}}
StrategyNames ==
    {None, Some(""), Some("rag"), Some("structured"), Some("hybrid"), Some("auto"),
     Some("RAG")}

(* Ranked result lists, entities and merged filters handed to              *)
(* _calculate_relevance_score                                               *)
RankedLists ==
    {rank_by_confidence([i \in 1..Len(PickRows(S)) |-> RagCandidate(QFaded, PickRows(S)[i])]) :
        S \in SUBSET RowIds}
RoadSign60 == [problems |-> Some(<<"Faded">>), category |-> Some("Road Sign"),
               speed |-> Some(60)]
TwoProblems == [problems |-> Some(<<"Damaged", "Missing">>), category |-> None,
                speed |-> None]
RelevanceEntities == {NoEntities, FullEntities, RoadSign60, TwoProblems}
RelevanceFilters ==
    {NoFilters, FilterOf(Some(<<"Road Sign">>), Some(<<"Faded">>), None, None),
     FilterOf(Some(<<"Road Marking">>), None, None, None)}

InitFn ==
    /\ InitOrchIdle
    /\ InitTokensIdle
    /\ fnOut = None
    /\ \/ /\ store \in Stores
          /\ fnArgs \in [fn : {"search"}, query : Queries, filters : StrategyFilters,
                         max_results : 1..(2 * MaxLimit), db_ok : BOOLEAN]
       \/ /\ store = <<>>
          /\ fnArgs \in [fn : {"merge"}, filters : CallerFilters,
                         entities : EntityChoices]
       \/ /\ store = <<>>
          /\ fnArgs \in [fn : {"select"}, strategy : StrategyNames]
       \/ /\ store = <<>>
          /\ fnArgs \in [fn : {"relevance"}, results : RankedLists,
                         entities : RelevanceEntities, filters : RelevanceFilters]

CallStructuredSearch ==
    /\ fnArgs.fn = "search"
    /\ fnOut = None /\ exc = None
    /\ LET result == SearchCall(store, fnArgs.query, fnArgs.filters,
                                fnArgs.max_results, fnArgs.db_ok)
       IN /\ exc' = result.exception
          /\ fnOut' = IF IsSome(result.exception) THEN None ELSE Some(result.value)
    /\ UNCHANGED <<store, orchVars, fnArgs, tokVars, extVars>>

CallMergeFilters ==
    /\ fnArgs.fn = "merge"
    /\ fnOut = None
    /\ fnOut' = Some(MergeFilters(fnArgs.filters, fnArgs.entities))
    /\ UNCHANGED <<store, orchVars, fnArgs, exc, tokVars, extVars>>

CallSelectStrategy ==
    /\ fnArgs.fn = "select"
    /\ fnOut = None
    /\ fnOut' = Some(SelectStrategy(fnArgs.strategy))
    /\ UNCHANGED <<store, orchVars, fnArgs, exc, tokVars, extVars>>

CallCalculateRelevanceScore ==
    /\ fnArgs.fn = "relevance"
    /\ fnOut = None
    /\ fnOut' = Some(CalculateRelevanceScore(fnArgs.results, fnArgs.entities,
                                             fnArgs.filters))
    /\ UNCHANGED <<store, orchVars, fnArgs, exc, tokVars, extVars>>

NextFn ==
    \/ CallStructuredSearch
    \/ CallMergeFilters
    \/ CallSelectStrategy
    \/ CallCalculateRelevanceScore

SpecFn == InitFn /\ [][NextFn]_vars

(***************************************************************************)
(* GeminiService: extract_entities, synthesize_recommendation and          *)
(* answer_followup with their token tracking (SpecGemini).  None of the    *)
(* three methods awaits anything between its provider call and its return, *)
(* so on the event loop each call runs to completion as one step.          *)
(*                                                                         *)
(* A provider reply is: raises (generate_content or response.text raised), *)
(* the text as fence (it starts with three backquotes), label (what        *)
(* follows them on that line) and body (what kind of text the rest is),    *)
(* and usage (usage_metadata, None when the response has no such           *)
(* attribute).                                                             *)
(***************************************************************************)
MaxPending == 2

Reply(raises, fence, label, body, usage) ==
    [raises |-> raises, fence |-> fence, label |-> label, body |-> body,
     usage |-> usage]
Usage(prompt, candidates) == Some([input |-> prompt, output |-> candidates])

ExtractReplies ==
    {Reply(TRUE, FALSE, "", "not_json", None),
     Reply(FALSE, FALSE, "", "object", Usage(3, 2)),
     Reply(FALSE, TRUE, "json", "object", Usage(5, 1)),
     Reply(FALSE, TRUE, "", "empty_object", None),
     Reply(FALSE, TRUE, "JSON", "object", Usage(1, 1)),
     Reply(FALSE, FALSE, "", "list", Usage(2, 2)),
     Reply(FALSE, FALSE, "", "wrong_types", Usage(4, 1)),
     Reply(FALSE, FALSE, "", "not_json", Usage(7, 3))}
TextReplies ==
    {Reply(TRUE, FALSE, "", "text", None),
     Reply(FALSE, FALSE, "", "text", Usage(6, 4)),
     Reply(FALSE, FALSE, "", "text", None)}

(* Lines 100-104: the text between the first two fences, a leading "json"  *)
(* cut off.  What is left of the label stays in front of the body.         *)
StripFences(reply) ==
    IF reply.fence
    THEN [label |-> IF reply.label = "json" THEN "" ELSE reply.label,
          body |-> reply.body]
    ELSE [label |-> reply.label, body |-> reply.body]

(* json.loads: Some(kind of the parsed value), None for JSONDecodeError *)
JsonLoads(text) ==
    IF text.label = "" /\ text.body \in {"object", "empty_object", "list", "wrong_types"}
    THEN Some(text.body)
    ELSE None

(* The ExtractedEntities built from data, None where the constructor      *)
(* raises (data is no dict, or a field has the wrong type)                  *)
BuildEntities(data) ==
    CASE data = "object" -> Some(FullEntities)
      [] data = "empty_object" -> Some(NoEntities)
      [] OTHER -> None

(* Lines 110-112, 168-170, 195-197: what a call that got this far adds *)
TrackedUsage(reply) == IF IsSome(reply.usage) THEN reply.usage[1] ELSE NoUsage

(* What a method does: the exception it raises to its caller (Optional),   *)
(* the value it returns and what it adds to the counters.                  *)
MethodResult(exception, value, added) ==
    [exception |-> exception, value |-> value, added |-> added]

(* Mutant of extract_entities: only the JSONDecodeError handler of line    *)
(* 116 is there                                                            *)
ExtractEntities_OnlyJsonErrors(reply) ==
    IF reply.raises THEN MethodResult(Some("Exception"), NoEntities, NoUsage)
    ELSE LET data == JsonLoads(StripFences(reply))
         IN IF ~IsSome(data) THEN MethodResult(None, NoEntities, NoUsage)
            ELSE IF ~IsSome(BuildEntities(data[1]))
                 THEN MethodResult(Some("Exception"), NoEntities, TrackedUsage(reply))
                 ELSE MethodResult(None, BuildEntities(data[1])[1], TrackedUsage(reply))

(* extract_entities (lines 95-122): the tokens are tracked after json.loads *)
(* and before the constructor; both except clauses return                   *)
(* ExtractedEntities().                                                    *)
ExtractEntities(reply) ==
    IF reply.raises THEN MethodResult(None, NoEntities, NoUsage)
    ELSE LET data == JsonLoads(StripFences(reply))
         IN IF ~IsSome(data) THEN MethodResult(None, NoEntities, NoUsage)
            ELSE IF ~IsSome(BuildEntities(data[1]))
                 THEN MethodResult(None, NoEntities, TrackedUsage(reply))
                 ELSE MethodResult(None, BuildEntities(data[1])[1], TrackedUsage(reply))

(* synthesize_recommendation (lines 163-177) *)
SynthesizeText(reply) ==
    IF reply.raises
    THEN MethodResult(None, "Error generating detailed recommendation. Please try again.",
                      NoUsage)
    ELSE MethodResult(None, reply.body, TrackedUsage(reply))

(* answer_followup (lines 190-203) *)
AnswerFollowup(reply) ==
    IF reply.raises
    THEN MethodResult(None, "I'm unable to answer that question at the moment.", NoUsage)
    ELSE MethodResult(None, reply.body, TrackedUsage(reply))

GeminiCallPool ==
    {[op |-> "extract_entities", reply |-> r] : r \in ExtractReplies}
    \cup {[op |-> o, reply |-> r] :
            o \in {"synthesize_recommendation", "answer_followup"}, r \in TextReplies}

InitGemini ==
    /\ store = <<>>
    /\ InitOrchIdle
    /\ total_input_tokens = 0
    /\ total_output_tokens = 0
    /\ reported = NoUsage
    /\ pending \in {P \in SUBSET GeminiCallPool : Cardinality(P) \in 1..MaxPending}
    /\ fnArgs = [fn |-> "gemini", requested |-> pending]
    /\ fnOut = None

(* One call runs: its result, the counters, and what the provider reported *)
RunGeminiCall(c, result) ==
    /\ pending' = pending \ {c}
    /\ fnOut' = Some([op |-> c.op, reply |-> c.reply, value |-> result.value])
    /\ exc' = result.exception
    /\ total_input_tokens' = total_input_tokens + result.added.input
    /\ total_output_tokens' = total_output_tokens + result.added.output
    /\ reported' = IF c.reply.raises THEN reported
                   ELSE [input |-> reported.input + TrackedUsage(c.reply).input,
                         output |-> reported.output + TrackedUsage(c.reply).output]
    /\ UNCHANGED <<store, orchVars, fnArgs, extVars>>

CallExtractEntities ==
    \E c \in pending :
        c.op = "extract_entities" /\ RunGeminiCall(c, ExtractEntities(c.reply))

CallSynthesizeRecommendation ==
    \E c \in pending :
        c.op = "synthesize_recommendation" /\ RunGeminiCall(c, SynthesizeText(c.reply))

CallAnswerFollowup ==
    \E c \in pending :
        c.op = "answer_followup" /\ RunGeminiCall(c, AnswerFollowup(c.reply))

NextGemini == CallExtractEntities \/ CallSynthesizeRecommendation \/ CallAnswerFollowup

SpecGemini == InitGemini /\ [][NextGemini]_vars

(***************************************************************************)
(* frontend/utils/api_client.py: APIClient.search and the retry loop of    *)
(* _make_request (SpecClient).  One step is one iteration of the loop: the *)
(* HTTP request, what the server or the transport answers, and the branch  *)
(* the code takes.  The iteration that leaves the loop also runs the rest  *)
(* of search(), which does no further I/O.                                 *)
(***************************************************************************)
MaxRetries == 3

RetryStatusCodes == {500, 502, 503, 504}

(* What one requests.request call can end in: a response (its status and    *)
(* whether its body is JSON) or an exception of the requests library        *)
HttpResponse(status, json) == [kind |-> "response", status |-> status, json |-> json]
TransportError(kind) == [kind |-> kind, status |-> 0, json |-> FALSE]
ServerOutcomes ==
    {HttpResponse(200, TRUE), HttpResponse(200, FALSE),
     HttpResponse(400, TRUE), HttpResponse(401, TRUE), HttpResponse(404, TRUE),
     HttpResponse(429, TRUE), HttpResponse(500, TRUE), HttpResponse(503, FALSE),
     TransportError("Timeout"), TransportError("ConnectionError"),
     TransportError("RequestException")}

(* response.raise_for_status() raises HTTPError for a 4xx or 5xx status *)
RaisesForStatus(status) == status >= 400 /\ status < 600

(* What _make_request or search ends in *)
Returned(value) == [kind |-> "returned", error |-> "", message |-> "", value |-> value]
Raised(error, message) ==
    [kind |-> "raised", error |-> error, message |-> message, value |-> None]
NotFinished == [kind |-> "running", error |-> "", message |-> "", value |-> None]

(* One iteration of the loop (lines 59-99) for attempt and outcome o:       *)
(* "continue" after a sleep, or the way the iteration leaves _make_request  *)
Iteration(o, attempt, max_retries) ==
    LET may_retry == attempt < max_retries - 1
        retry == [kind |-> "continue", wait_time |-> 2 ^ attempt, made |-> NotFinished]
        leave(made) == [kind |-> "leave", wait_time |-> 0, made |-> made]
    IN CASE o.kind = "response" ->
              IF o.status \in RetryStatusCodes /\ may_retry THEN retry
              ELSE IF o.status \notin RetryStatusCodes /\ RaisesForStatus(o.status)
                   THEN (* HTTPError is a RequestException: caught at line 93 *)
                        IF may_retry THEN retry
                        ELSE leave(Raised("NetworkError", "Request failed"))
                   ELSE leave(Returned(Some(o)))
         [] o.kind = "Timeout" ->
              IF may_retry THEN retry
              ELSE leave(Raised("NetworkError", "Request timeout"))
         [] o.kind = "ConnectionError" ->
              IF may_retry THEN retry
              ELSE leave(Raised("NetworkError", "Connection error"))
         [] OTHER ->
              IF may_retry THEN retry
              ELSE leave(Raised("NetworkError", "Request failed"))

(* _handle_error_response (lines 105-124): the exception it raises *)
HandleErrorResponse(status) ==
    CASE status = 400 -> Raised("ValidationError", "detail")
      [] status = 401 -> Raised("APIError", "Unauthorized: Invalid API key")
      [] status = 429 -> Raised("APIError", "Rate limit exceeded")
      [] status >= 500 -> Raised("APIError", "Server error")
      [] OTHER -> Raised("APIError", "detail")

(* search() around _make_request (lines 155-166).  made is what             *)
(* _make_request did; an HTTPError that left it carries its response in     *)
(* value.                                                                   *)
SearchOutcome(made) ==
    CASE made.kind = "returned" /\ made.value = None ->
              (* None.json() raises AttributeError, caught at line 165 *)
              Raised("NetworkError", "Unexpected error")
      [] made.kind = "returned" /\ made.value # None ->
              IF made.value[1].json
              THEN Returned(Some([payload_of |-> made.value[1].status]))
              ELSE Raised("NetworkError", "Unexpected error")
      [] made.kind = "raised" /\ made.error = "HTTPError" ->
              IF made.value # None
              THEN HandleErrorResponse(made.value[1].status)
              ELSE Raised("APIError", "HTTP error")
      [] OTHER -> made

InitClient ==
    /\ store = <<>>
    /\ cache = {} /\ req = None /\ resp = None /\ ran = <<>> /\ calls = 0
    /\ exc = None /\ llmCalls = <<>> /\ inflight = <<>>
    /\ InitTokensIdle
    /\ fnArgs = NoArgs
    /\ fnOut = None
    /\ \E r \in 0..MaxRetries :
          client = [phase |-> "loop", max_retries |-> r, attempt |-> 0, sent |-> 0,
                    slept |-> <<>>, seen |-> <<>>, last_exception |-> None,
                    made |-> NotFinished, search |-> NotFinished]

(* One pass through the body of `for attempt in range(self.max_retries)` *)
MakeRequestAttempt ==
    /\ client.phase = "loop"
    /\ client.attempt < client.max_retries
    /\ \E o \in ServerOutcomes :
          LET step == Iteration(o, client.attempt, client.max_retries)
              caught == IF o.kind # "response" THEN Some(o.kind)
                        ELSE IF o.status \notin RetryStatusCodes
                                /\ RaisesForStatus(o.status)
                             THEN Some("HTTPError")
                             ELSE client.last_exception
          IN client' =
                IF step.kind = "continue"
                THEN [client EXCEPT !.attempt = @ + 1, !.sent = @ + 1,
                                    !.seen = Append(@, o),
                                    !.slept = Append(@, step.wait_time),
                                    !.last_exception = caught]
                ELSE [client EXCEPT !.phase = "done", !.sent = @ + 1,
                                    !.seen = Append(@, o),
                                    !.last_exception = caught,
                                    !.made = step.made,
                                    !.search = SearchOutcome(step.made)]
    /\ UNCHANGED <<store, orchVars, fnVars, exc, tokVars, inflight>>

(* Lines 101-103, reached when the loop ends without return or raise: the   *)
(* last exception is raised if there is one, else the method falls off its  *)
(* end and returns None                                                     *)
LoopExhausted ==
    /\ client.phase = "loop"
    /\ client.attempt >= client.max_retries
    /\ LET made == IF IsSome(client.last_exception)
                   THEN Raised(client.last_exception[1], "")
                   ELSE Returned(None)
       IN client' = [client EXCEPT !.phase = "done", !.made = made,
                                   !.search = SearchOutcome(made)]
    /\ UNCHANGED <<store, orchVars, fnVars, exc, tokVars, inflight>>

NextClient == MakeRequestAttempt \/ LoopExhausted

SpecClient == InitClient /\ [][NextClient]_vars

(***************************************************************************)
(* Claims about StructuredQueryStrategy.search (SpecFn)                    *)
(***************************************************************************)
SearchText == text_search(store, fnArgs.query, fnArgs.max_results * 2)
SearchFiltered ==
    search_by_filters(store, fnArgs.filters.category, fnArgs.filters.problem,
                      fnArgs.filters.speed_min, fnArgs.filters.speed_max,
                      fnArgs.filters.irc_code, fnArgs.max_results * 2)
CandidatesOf(rows) ==
    [i \in 1..Len(rows) |-> Candidate(fnArgs.query, rows[i], fnArgs.filters)]
SearchCalled == fnArgs.fn = "search" /\ (IsSome(fnOut) \/ IsSome(exc))
(* search() returned, the DatabaseService having answered *)
SearchReturned == fnArgs.fn = "search" /\ fnArgs.db_ok /\ IsSome(fnOut)
NoSelectedRowRaises ==
    \A i \in 1..Len(SelectRows(store, fnArgs.query, fnArgs.filters, fnArgs.max_results)) :
        ~RowRaises(SelectRows(store, fnArgs.query, fnArgs.filters, fnArgs.max_results)[i])

FilterNeverStarves ==
    /\ (FiltersActive(fnArgs.filters) /\ SearchFiltered = <<>> /\ SearchText # <<>>)
          => fnOut[1] = CandidatesOf(SearchText)
    /\ (FiltersActive(fnArgs.filters) /\ SearchFiltered # <<>>)
          => fnOut[1] = CandidatesOf(SearchFiltered)

(* C8: filter-never-starves.  When the filtered search is empty and the    *)
(* text search is not, search() returns the candidates of the text-search  *)
(* rows; when the filtered search is not empty, it returns the candidates  *)
(* of the filtered rows only.                                              *)
C8_FilterNeverStarves == SearchReturned => FilterNeverStarves

(* C8, on the rows whose sequence number parses: the same statement holds  *)
(* whenever no selected row makes the normalization raise.                 *)
C8_HoldsWhenNoRowRaises ==
    (SearchReturned /\ NoSelectedRowRaises) => FilterNeverStarves

(* C10: with a non-empty store search() never returns an empty list, and   *)
(* when both the text search and the filtered search are empty it returns  *)
(* the candidates of get_all(limit=max_results).                           *)
C10_NeverEmptyForNonEmptyStore ==
    (SearchReturned /\ store # <<>>) =>
        /\ fnOut[1] # <<>>
        /\ (SearchText = <<>> /\ (FiltersActive(fnArgs.filters) => SearchFiltered = <<>>))
              => fnOut[1] = CandidatesOf(get_all(store, fnArgs.max_results))

(* C10, on the rows whose sequence number parses. *)
C10_HoldsWhenNoRowRaises ==
    (SearchReturned /\ store # <<>> /\ NoSelectedRowRaises) =>
        /\ fnOut[1] # <<>>
        /\ (SearchText = <<>> /\ (FiltersActive(fnArgs.filters) => SearchFiltered = <<>>))
              => fnOut[1] = CandidatesOf(get_all(store, fnArgs.max_results))

(***************************************************************************)
(* Claims about _merge_filters and _select_strategy (SpecFn)               *)
(***************************************************************************)
MergeReturned == fnArgs.fn = "merge" /\ IsSome(fnOut)
SelectReturned == fnArgs.fn = "select" /\ IsSome(fnOut)
NoCallerSpeed == fnArgs.filters.speed_min = None /\ fnArgs.filters.speed_max = None

(* C5: _merge_filters never changes a filter field the caller supplied:    *)
(* category, problem, speed_min and speed_max each keep the caller's value *)
(* whenever the caller set one.                                            *)
C5_CallerFiltersKept ==
    MergeReturned =>
        /\ IsSome(fnArgs.filters.category) => fnOut[1].category = fnArgs.filters.category
        /\ IsSome(fnArgs.filters.problem) => fnOut[1].problem = fnArgs.filters.problem
        /\ IsSome(fnArgs.filters.speed_min) => fnOut[1].speed_min = fnArgs.filters.speed_min
        /\ IsSome(fnArgs.filters.speed_max) => fnOut[1].speed_max = fnArgs.filters.speed_max

(* C6, as claimed: an extracted speed s with no caller speed filter gives  *)
(* speed_min = s - 20 and speed_max = s + 20, for every integer s.         *)
C6_WindowIsSMinus20 ==
    (MergeReturned /\ IsSome(fnArgs.entities.speed) /\ NoCallerSpeed) =>
        /\ fnOut[1].speed_min = Some(fnArgs.entities.speed[1] - 20)
        /\ fnOut[1].speed_max = Some(fnArgs.entities.speed[1] + 20)

(* C6, amended: an extracted non-zero speed s with no caller speed filter  *)
(* gives speed_min = max(0, s - 20) and speed_max = s + 20; an extracted   *)
(* speed of 0 counts as no speed and leaves both fields unset.             *)
C6_WindowClampedAtZero ==
    (MergeReturned /\ IsSome(fnArgs.entities.speed) /\ NoCallerSpeed) =>
        IF fnArgs.entities.speed[1] # 0
        THEN /\ fnOut[1].speed_min = Some(Max(0, fnArgs.entities.speed[1] - 20))
             /\ fnOut[1].speed_max = Some(fnArgs.entities.speed[1] + 20)
        ELSE /\ fnOut[1].speed_min = None
             /\ fnOut[1].speed_max = None

(* C6 witness: speed 10 merged into filters without a speed range, the     *)
(* lower end clamped to 0.                                                 *)
C6_Witness ==
    /\ MergeReturned /\ NoCallerSpeed
    /\ fnArgs.entities.speed = Some(10)
    /\ fnOut[1].speed_min = Some(0)
    /\ fnOut[1].speed_max = Some(30)

(* C7: "rag", "structured" and "hybrid" select the strategy of that name;  *)
(* every other value, an absent one and "auto" included, selects hybrid.   *)
C7_StrategySelection ==
    SelectReturned =>
        /\ fnArgs.strategy = Some("rag") => fnOut[1] = "rag"
        /\ fnArgs.strategy = Some("structured") => fnOut[1] = "structured"
        /\ fnArgs.strategy \notin {Some("rag"), Some("structured")} => fnOut[1] = "hybrid"

(* C7 witness: an absent strategy name selected the hybrid strategy *)
C7_Witness == SelectReturned /\ fnArgs.strategy = None /\ fnOut[1] = "hybrid"

(***************************************************************************)
(* Claims about process_query (Spec)                                       *)
(***************************************************************************)
Responded == IsSome(req) /\ IsSome(resp)
Results == resp[1].results
CallerSetsCategoryAndProblem ==
    /\ IsSome(req[1].filters)
    /\ TruthyList(req[1].filters[1].category)
    /\ TruthyList(req[1].filters[1].problem)
AllResultsMatchCallerFilters ==
    \A i \in 1..Len(Results) :
        /\ Results[i].category \in Range(req[1].filters[1].category[1])
        /\ Results[i].problem \in Range(req[1].filters[1].problem[1])
(* The filters the response was computed with: the caller's, merged with   *)
(* the entities the response records.                                      *)
MergedFiltersOfResponse ==
    MergeFilters(RequestFilters(req[1]), resp[1].metadata.entities_extracted)
FilteredSearchFinds ==
    search_by_filters(store, MergedFiltersOfResponse.category,
                      MergedFiltersOfResponse.problem,
                      MergedFiltersOfResponse.speed_min,
                      MergedFiltersOfResponse.speed_max,
                      MergedFiltersOfResponse.irc_code, 1) # <<>>

(* C1: the response of every process_query call, cache hits included, has  *)
(* at most request.max_results results.                                    *)
C1_ResultsWithinMaxResults ==
    Responded => Len(Results) <= req[1].max_results

(* C1, on a cache miss: the truncation of line 88 keeps the bound. *)
C1_HoldsOnCacheMiss ==
    (Responded /\ ran = MissSteps) => Len(Results) <= req[1].max_results

C3_SortedByConfidence ==
    Responded =>
        \A i \in 1..(Len(Results) - 1) :
            Results[i].confidence >= Results[i + 1].confidence

(* C3 witness: a response with two results of different confidence *)
C3_Witness ==
    /\ Responded /\ Len(Results) >= 2
    /\ Results[1].confidence > Results[2].confidence

(* C4: no two results of a response have the same intervention id. *)
C4_NoDuplicateIds ==
    Responded =>
        \A i, j \in 1..Len(Results) : Results[i].id = Results[j].id => i = j

(* C4 witness: a hybrid response computed from candidate lists in which    *)
(* both retrieval strategies returned the same intervention.               *)
C4_Witness ==
    /\ Responded /\ ran = MissSteps
    /\ resp[1].metadata.search_strategy = "hybrid"
    /\ Len(Results) >= 2
    /\ \E a \in Range(RagSearch(store, req[1].query, MergedFiltersOfResponse,
                                req[1].max_results * 2)),
          b \in Range(StructuredSearch(store, req[1].query, MergedFiltersOfResponse,
                                       req[1].max_results * 2)) :
            a.intervention.id = b.intervention.id

(* C9, as claimed: with a caller category filter and problem filter every  *)
(* result's category and problem are among the filter's values.            *)
C9_ResultsMatchCallerFilters ==
    (Responded /\ CallerSetsCategoryAndProblem) => AllResultsMatchCallerFilters

(* C9, amended: they are whenever the filtered search finds at least one   *)
(* row for the merged filters.                                             *)
C9_ResultsMatchWhenFilteredSearchFinds ==
    (Responded /\ CallerSetsCategoryAndProblem /\ FilteredSearchFinds)
        => AllResultsMatchCallerFilters

(* C9 witness: a structured response to a request with both filters, the   *)
(* filtered search non-empty, with results.                                *)
C9_Witness ==
    /\ Responded /\ CallerSetsCategoryAndProblem /\ FilteredSearchFinds
    /\ resp[1].metadata.search_strategy = "structured"
    /\ Results # <<>>
    /\ AllResultsMatchCallerFilters

(* A request whose query, filters and extracted entities match no row:     *)
(* the text search and the filtered search are both empty.                 *)
NothingMatches ==
    /\ Responded /\ ran = MissSteps
    /\ req[1].query = QNone
    /\ req[1].filters = None
    /\ resp[1].metadata.entities_extracted = NoEntities
    /\ store # <<>>

(* C11: a query that matches nothing, processed with the default strategy  *)
(* over a non-empty store, yields an empty result list.                    *)
C11_NoMatchGivesNoResults ==
    (NothingMatches /\ req[1].strategy = None) => Results = <<>>

(* C11, for the structured strategy alone: the same query yields an empty  *)
(* list (it does not: lines 48-51 fall back to get_all).                   *)
C11_NoMatchGivesNoResultsStructured ==
    (NothingMatches /\ req[1].strategy = Some("structured")) => Results = <<>>

(***************************************************************************)
(* Claims about synthesis and failures (SpecFault)                         *)
(***************************************************************************)
NoInterventionsMessage ==
    "No interventions found matching your query. Please try rephrasing or broadening your search."
SynthesisErrorMessage == "Error generating detailed recommendation. Please try again."
Computed == IsSome(req) /\ IsSome(resp) /\ ran = MissSteps
SynthesisCalls ==
    SelectSeq(llmCalls, LAMBDA c : c.op = "synthesize_recommendation")

(* C12: in a call that ranks and truncates a result list, the synthesis     *)
(* capability is called exactly when the list is non-empty, once, with at   *)
(* most the top 3 results; with an empty list the call returns a response   *)
(* with no results and the fixed 'No interventions found' synthesis.        *)
C12_SynthesisOnlyForResults ==
    Computed =>
        /\ (Results # <<>>) <=> (SynthesisCalls # <<>>)
        /\ Results # <<>> =>
              /\ Len(SynthesisCalls) = 1
              /\ SynthesisCalls[1].interventions = Min(Len(Results), TopForSynthesis)
              /\ resp[1].synthesis.kind # NoInterventionsMessage
              /\ Len(resp[1].synthesis.context) <= TopForSynthesis
        /\ Results = <<>> =>
              /\ exc = None
              /\ resp[1].synthesis.kind = NoInterventionsMessage
              /\ resp[1].metadata.total_results = 0

(* C12 witness: a response with four results whose synthesis was given the  *)
(* first three.                                                            *)
C12_Witness ==
    /\ Computed /\ Len(Results) = 4
    /\ Len(SynthesisCalls) = 1 /\ SynthesisCalls[1].interventions = 3
    /\ Len(resp[1].synthesis.context) = 3

(* C12, the empty case: a computed response without results *)
C12_EmptyCase == Computed /\ Results = <<>>

(* C14: when a step of process_query raises, the exception reaches the      *)
(* caller, no response is returned and the cache is as it was before the    *)
(* call; a call raises exactly when it stops before its last step.          *)
C14_FailureLeavesCacheUnchanged ==
    [][calls' = calls + 1 =>
          /\ IsSome(exc') <=> (ran' # MissSteps /\ ran' # HitSteps)
          /\ IsSome(exc') => (resp' = None /\ cache' = cache)]_vars

(* C14 witness: a call raised in the metrics logging, after synthesis and   *)
(* metadata, while an earlier response is in the cache.                     *)
C14_Witness ==
    /\ IsSome(exc) /\ resp = None
    /\ ran = StepsUpTo("log_evaluation_metrics")
    /\ cache # {}
    /\ ~IsSome(CacheGet(cache, CacheKeyOf(req[1])))

(* C15: a call in which the provider raised during entity extraction or     *)
(* synthesis raises to its caller: it returns no response and stores none.  *)
ProviderFailed == \E i \in 1..Len(llmCalls) : ~llmCalls[i].ok
C15_ProviderFailureAborts ==
    ProviderFailed =>
        /\ IsSome(exc) /\ resp = None
        /\ ~IsSome(CacheGet(cache, CacheKeyOf(req[1])))

(* C15, what the code does instead: the response is returned, and when the  *)
(* synthesis call failed its synthesis is the fixed error message.          *)
C15_ProviderFailureIsSwallowed ==
    (ProviderFailed /\ ran = MissSteps) =>
        /\ exc = None /\ IsSome(resp)
        /\ resp[1].metadata.entities_extracted = NoEntities
        /\ SynthesisCalls # <<>> => resp[1].synthesis.kind = SynthesisErrorMessage

(* len() of the strings an explanation is joined from *)
ReasonLength(r) ==
    CASE r = "Category filter match" -> 21
      [] r = "Problem type filter match" -> 25
      [] r = "Speed range match" -> 17
      [] r = "Text search match" -> 17
      [] r = "Semantic similarity match" -> 25
      [] r = "Matched based on query relevance" -> 32
      [] OTHER -> 0

(* len(", ".join(parts)) *)
RECURSIVE JoinedLength(_)
JoinedLength(parts) ==
    IF parts = <<>> THEN 0
    ELSE IF Len(parts) = 1 THEN ReasonLength(parts[1])
    ELSE ReasonLength(parts[1]) + 2 + JoinedLength(Tail(parts))

MinExplanationLength == 50

(* C18: every recommendation's explanation is non-empty and at least 50     *)
(* characters long.                                                        *)
C18_ExplanationAtLeast50 ==
    Responded =>
        \A i \in 1..Len(Results) :
            JoinedLength(Results[i].explanation) >= MinExplanationLength

(* C18, the part that holds: no explanation is empty *)
C18_ExplanationNonEmpty ==
    Responded =>
        \A i \in 1..Len(Results) : JoinedLength(Results[i].explanation) > 0

(* C19: the query of every response is the query text of its request,       *)
(* cache hits included.                                                    *)
C19_ResponseEchoesQuery ==
    Responded => resp[1].query = req[1].query.text

(* C19, on a cache miss: line 108 copies request.query *)
C19_HoldsOnCacheMiss ==
    Computed => resp[1].query = req[1].query.text

(***************************************************************************)
(* Claims about GeminiService (SpecGemini)                                 *)
(***************************************************************************)
ExtractReturned == IsSome(fnOut) /\ fnOut[1].op = "extract_entities"
(* The call or the parse failed: the provider raised, the text is no JSON, *)
(* or the JSON value is no object of the expected field types.             *)
CallOrParseFailed(reply) ==
    \/ reply.raises
    \/ reply.body \notin {"object", "empty_object"}
    \/ reply.label \notin {"", "json"}
    \/ (reply.label = "json" /\ ~reply.fence)

(* C13: extract_entities never raises; it returns an ExtractedEntities     *)
(* value, the all-empty one whenever the provider call or the parse failed. *)
C13_ExtractionNeverRaises ==
    /\ exc = None
    /\ ExtractReturned =>
          /\ fnOut[1].value \in {NoEntities, FullEntities}
          /\ CallOrParseFailed(fnOut[1].reply) => fnOut[1].value = NoEntities

(* C13 witness: the reply was valid JSON that is no object (the constructor *)
(* raised) and the call returned the all-empty entities.                    *)
C13_Witness ==
    /\ ExtractReturned /\ exc = None
    /\ fnOut[1].reply.body = "list"
    /\ fnOut[1].value = NoEntities

(* C13, the other way round: a fenced JSON object is parsed *)
C13_FencedObjectParsed ==
    (ExtractReturned /\ ~CallOrParseFailed(fnOut[1].reply) /\ fnOut[1].reply.body = "object")
        => fnOut[1].value = FullEntities

AllCallsDone == pending = {}
(* Every extract_entities reply that was requested parses as JSON *)
ExtractRepliesParse ==
    \A c \in fnArgs.requested :
        (c.op = "extract_entities" /\ ~c.reply.raises)
            => IsSome(JsonLoads(StripFences(c.reply)))

(* C20: after the calls have run, in whatever order, the counters are the   *)
(* sums of the token counts the provider reported to them.                  *)
C20_NoIncrementLost ==
    AllCallsDone =>
        /\ total_input_tokens = reported.input
        /\ total_output_tokens = reported.output

(* C20, for calls whose extraction replies parse: no order of the calls     *)
(* loses an increment.                                                     *)
C20_HoldsWhenRepliesParse ==
    (AllCallsDone /\ ExtractRepliesParse) =>
        /\ total_input_tokens = reported.input
        /\ total_output_tokens = reported.output

(***************************************************************************)
(* Claims about failures inside StructuredQueryStrategy.search (SpecFn)    *)
(***************************************************************************)
SelectedRows == SelectRows(store, fnArgs.query, fnArgs.filters, fnArgs.max_results)
TryRaised ==
    IsSome(SearchTry(store, fnArgs.query, fnArgs.filters, fnArgs.max_results,
                     fnArgs.db_ok).exception)

C17_MalformedSNoCoercedToZero ==
    SearchReturned => fnOut[1] = CandidatesOf(SelectedRows)

(* C17, for the rows without a sequence-number key: a malformed id suffix   *)
(* is coerced to 0 by the inner try of lines 66-69.                         *)
C17_HoldsForAbsentKey ==
    (SearchReturned
     /\ \A i \in 1..Len(SelectedRows) :
            RowRaises(SelectedRows[i]) => SelectedRows[i].sno_key = "absent")
        => fnOut[1] = CandidatesOf(SelectedRows)

(* C17, the absent key is exercised: a returned candidate with s_no = 0     *)
(* built from a row that has no sequence-number key.                        *)
C17_AbsentKeyCase ==
    /\ SearchReturned
    /\ \E i \in 1..Len(fnOut[1]) :
          /\ SelectedRows[i].sno_key = "absent"
          /\ fnOut[1][i].intervention.s_no = 0

(***************************************************************************)
(* Claims about overlapping process_query calls (SpecRace)                 *)
(***************************************************************************)
(* Two calls that both missed while the other was computing *)
Overlap(i, j) == i \in inflight[j].open \/ j \in inflight[i].open
SameFingerprint(i, j) ==
    CacheKeyOf(inflight[i].request) = CacheKeyOf(inflight[j].request)
RacingMisses(i, j) ==
    /\ i # j /\ Overlap(i, j) /\ SameFingerprint(i, j)
    /\ ~inflight[i].hit /\ inflight[i].returned
    /\ ~inflight[j].hit /\ inflight[j].returned
LaterHits(i) ==
    {k \in 1..Len(inflight) : inflight[k].hit /\ SameFingerprint(i, k)}

(* C21: two overlapping calls with the same fingerprint that both missed    *)
(* computed identical responses, so the entry left in the cache and every   *)
(* later hit equal the response of either call.                             *)
C21_RaceIsHarmless ==
    \A i, j \in 1..Len(inflight) :
        RacingMisses(i, j) =>
            /\ inflight[i].response = inflight[j].response
            /\ \A k \in LaterHits(i) : inflight[k].response = inflight[i].response

(* C21, for two overlapping calls with the very same request: their         *)
(* responses are equal (they are not: the provider's behaviour is part of   *)
(* the response).                                                           *)
C21_HarmlessForIdenticalRequests ==
    \A i, j \in 1..Len(inflight) :
        (RacingMisses(i, j) /\ inflight[i].request = inflight[j].request) =>
            inflight[i].response = inflight[j].response

(* C21, the part that holds: every call that missed completes by writing    *)
(* its own response under its key (the last write wins), and a hit returns  *)
(* the entry that is in the cache when it looks.                            *)
C21_LastWriteWins ==
    [][\A i \in 1..Len(inflight) :
          (~inflight[i].returned /\ inflight'[i].returned) =>
              /\ IsSome(inflight'[i].response)
              /\ CacheGet(cache', CacheKeyOf(inflight[i].request))
                    = inflight'[i].response]_vars

(* C21: two racing misses of one fingerprint have both returned and a later *)
(* call was answered from the entry they left.                              *)
C21_RaceCase ==
    \E i, j \in 1..Len(inflight) :
        RacingMisses(i, j) /\ LaterHits(i) # {}

(***************************************************************************)
(* Claims about the candidates of StructuredQueryStrategy.search (SpecFn)  *)
(***************************************************************************)
(* The values of max_results that process_query passes to search: twice a   *)
(* request's max_results (line 82)                                          *)
PassedByOrchestrator == \E m \in 1..MaxLimit : fnArgs.max_results = 2 * m

(* C22: the candidate list search() returns to process_query is never       *)
(* longer than the max_results it was called with, which is twice the       *)
(* request's max_results.                                                   *)
C22_CandidatesWithinTwiceMax ==
    (SearchReturned /\ PassedByOrchestrator) => Len(fnOut[1]) <= fnArgs.max_results

(* C22, the bound the code keeps: search() asks the store for twice its own *)
(* max_results, four times the request's.                                   *)
C22_CandidatesWithinFourTimesMax ==
    (SearchReturned /\ PassedByOrchestrator) => Len(fnOut[1]) <= 2 * fnArgs.max_results

(* 1 for a condition that holds, 0 otherwise *)
Indicator(b) == IF b THEN 1 ELSE 0

(* The five conditions of the scoring rule for a returned candidate *)
ProblemInQuery(c) == Lower(c.intervention.problem) \in fnArgs.query.subs
CategoryInQuery(c) == Lower(c.intervention.category) \in fnArgs.query.subs
TypeInQuery(c) == Lower(c.intervention.type) \in fnArgs.query.subs
CategoryFilterHit(c) ==
    /\ TruthyList(fnArgs.filters.category)
    /\ c.intervention.category \in Range(fnArgs.filters.category[1])
ProblemFilterHit(c) ==
    /\ TruthyList(fnArgs.filters.problem)
    /\ c.intervention.problem \in Range(fnArgs.filters.problem[1])

(* C23: the confidence of every candidate search() returns is               *)
(* min(1.0, 0.5 + 0.2*[problem in query] + 0.15*[category in query]         *)
(* + 0.15*[type in query] + 0.1*[category filter hit]                       *)
(* + 0.1*[problem filter hit]), in hundredths, and lies in [0.5, 1.0].      *)
C23_ConfidenceFormula ==
    SearchReturned =>
        \A i \in 1..Len(fnOut[1]) :
            LET c == fnOut[1][i]
                sum == 50 + 20 * Indicator(ProblemInQuery(c))
                          + 15 * Indicator(CategoryInQuery(c))
                          + 15 * Indicator(TypeInQuery(c))
                          + 10 * Indicator(CategoryFilterHit(c))
                          + 10 * Indicator(ProblemFilterHit(c))
            IN /\ c.confidence = (IF sum < 100 THEN sum ELSE 100)
               /\ c.confidence >= 50 /\ c.confidence <= 100
               /\ c.relevance_score = c.confidence

(* C23 witness: a candidate whose bonuses add up to more than 1.0 (problem  *)
(* and type in the query, both filters hit) and whose confidence is 1.0.    *)
C23_Witness ==
    /\ SearchReturned
    /\ \E i \in 1..Len(fnOut[1]) :
          /\ ProblemInQuery(fnOut[1][i]) /\ TypeInQuery(fnOut[1][i])
          /\ CategoryFilterHit(fnOut[1][i]) /\ ProblemFilterHit(fnOut[1][i])
          /\ fnOut[1][i].confidence = 100

(* The reasons of a candidate, as ", ".join writes them *)
ReasonsOf(c) == Range(c.match_reason[1])
SpeedFilterHit(c) ==
    /\ IsSome(fnArgs.filters.speed_min) =>
          (IsSome(c.intervention.speed_max)
           /\ c.intervention.speed_max[1] >= fnArgs.filters.speed_min[1])
    /\ IsSome(fnArgs.filters.speed_max) =>
          (IsSome(c.intervention.speed_min)
           /\ c.intervention.speed_min[1] <= fnArgs.filters.speed_max[1])

(* C24: a candidate is labelled "Text search match" exactly when no filter  *)
(* (category, problem, speed_min, speed_max, irc_code) was active in the    *)
(* search, and it carries a filter's label only if that filter selects it.  *)
C24_MatchReasonNamesFiringFilters ==
    SearchReturned =>
        \A i \in 1..Len(fnOut[1]) :
            LET c == fnOut[1][i]
            IN /\ ("Text search match" \in ReasonsOf(c))
                     <=> ~FiltersActive(fnArgs.filters)
               /\ "Category filter match" \in ReasonsOf(c) => CategoryFilterHit(c)
               /\ "Problem type filter match" \in ReasonsOf(c) => ProblemFilterHit(c)
               /\ "Speed range match" \in ReasonsOf(c) => SpeedFilterHit(c)

(* C24, the first half alone: "Text search match" exactly when no filter    *)
(* was active (an irc_code filter alone is active and still gets it).       *)
C24_TextLabelIffNoFilter ==
    SearchReturned =>
        \A i \in 1..Len(fnOut[1]) :
            ("Text search match" \in ReasonsOf(fnOut[1][i]))
                <=> ~FiltersActive(fnArgs.filters)

(* C24, the second half alone: a filter label only on a row that filter     *)
(* selects (the text rows kept after an empty filtered search get it too).  *)
C24_FilterLabelOnlyIfSelected ==
    SearchReturned =>
        \A i \in 1..Len(fnOut[1]) :
            /\ "Category filter match" \in ReasonsOf(fnOut[1][i])
                  => CategoryFilterHit(fnOut[1][i])
            /\ "Problem type filter match" \in ReasonsOf(fnOut[1][i])
                  => ProblemFilterHit(fnOut[1][i])

(* C24, what the code does: the label names the filters the caller's dict   *)
(* holds, whatever the row, and is "Text search match" when it holds none   *)
(* of category, problem and a speed bound.                                  *)
C24_LabelNamesSuppliedFilters ==
    SearchReturned =>
        \A i \in 1..Len(fnOut[1]) :
            LET c == fnOut[1][i]
            IN /\ "Category filter match" \in ReasonsOf(c)
                     <=> TruthyList(fnArgs.filters.category)
               /\ "Problem type filter match" \in ReasonsOf(c)
                     <=> TruthyList(fnArgs.filters.problem)
               /\ "Speed range match" \in ReasonsOf(c)
                     <=> (TruthyInt(fnArgs.filters.speed_min)
                          \/ TruthyInt(fnArgs.filters.speed_max))
               /\ "Text search match" \in ReasonsOf(c)
                     <=> ReasonsOf(c) = {"Text search match"}

(***************************************************************************)
(* Claims about the order of the pipeline (SpecFault)                      *)
(***************************************************************************)
IsPrefixOf(s, t) == Len(s) <= Len(t) /\ s = SubSeq(t, 1, Len(s))
PositionIn(s, x) == CHOOSE i \in 1..Len(s) : s[i] = x
Missed == calls > 0 /\ ran # HitSteps

(* C25: a call that misses the cache runs, once each and in this order:     *)
(* cache lookup, entity extraction, filter merge, strategy selection,       *)
(* strategy.search, apply_boost, deduplicate, rank_by_confidence,           *)
(* truncation, recommendation build, synthesis, metadata assembly, metrics  *)
(* logging, cache.set, and then returns; a call that raises stops within    *)
(* this order.  No step occurs twice, cache.set comes after synthesis, the  *)
(* provider is asked for entities before it is asked for a synthesis, and   *)
(* a call returns exactly when it ran every step.                           *)
C25_StepsOnceAndInOrder ==
    [][(calls' = calls + 1 /\ ran' # HitSteps) =>
          /\ IsPrefixOf(ran',
                <<"cache_get", "extract_entities", "merge_filters", "select_strategy",
                  "strategy_search", "apply_boost", "deduplicate",
                  "rank_by_confidence", "truncate", "convert_to_recommendations",
                  "generate_synthesis", "build_metadata", "log_evaluation_metrics",
                  "cache_set">>)
          /\ \A i, j \in 1..Len(ran') : ran'[i] = ran'[j] => i = j
          /\ "cache_set" \in Range(ran') =>
                /\ "generate_synthesis" \in Range(ran')
                /\ PositionIn(ran', "generate_synthesis") < PositionIn(ran', "cache_set")
          /\ Len(ran') = 14 <=> IsSome(resp')
          /\ IsSome(resp') => CacheGet(cache', CacheKeyOf(req'[1])) = resp'
          /\ \A i \in 1..Len(llmCalls') :
                llmCalls'[i].op = "extract_entities" <=> i = 1]_vars

(* C25 witness: a miss ran all fourteen steps, asked the provider twice and *)
(* returned a response with results that is now in the cache.               *)
C25_Witness ==
    /\ Missed /\ Len(ran) = 14 /\ ran[14] = "cache_set"
    /\ IsSome(resp) /\ Results # <<>>
    /\ Len(llmCalls) = 2
    /\ CacheGet(cache, CacheKeyOf(req[1])) = resp

(* C25, a call that stopped early: it raised in the ranker, after the       *)
(* search and before any synthesis.                                         *)
C25_StoppedEarlyCase ==
    /\ Missed /\ IsSome(exc)
    /\ ran[Len(ran)] = "apply_boost"
    /\ Len(llmCalls) = 1

(***************************************************************************)
(* Claims about _calculate_relevance_score (SpecFn)                        *)
(***************************************************************************)
RelevanceReturned == fnArgs.fn = "relevance" /\ IsSome(fnOut)
IsRate(x) == 0 <= x /\ x <= 1200

(* C26: the relevance score is 0.4 * entity match rate + 0.4 * average      *)
(* confidence of the top 3 + 0.2 * filter match rate, both rates lying in   *)
(* [0, 1]; it is 0 for an empty result list and always lies in [0, 1].      *)
C26_RelevanceIsWeightedBlendOfRates ==
    RelevanceReturned =>
        /\ fnArgs.results = <<>> => fnOut[1].relevance_score = 0
        /\ fnArgs.results # <<>> =>
              /\ IsRate(fnOut[1].entity_score)
              /\ IsRate(fnOut[1].filter_match_score)
              /\ fnOut[1].relevance_score
                    = 4 * fnOut[1].entity_score + 4 * fnOut[1].avg_confidence
                      + 2 * fnOut[1].filter_match_score
        /\ 0 <= fnOut[1].relevance_score /\ fnOut[1].relevance_score <= 10 * 1200

(* C26, what holds: the score is the weighted sum cut to [0, 1], 0 for an   *)
(* empty list; the average confidence and the filter match rate are in      *)
(* [0, 1].                                                                  *)
C26_ScoreIsClampedSum ==
    RelevanceReturned =>
        /\ fnArgs.results = <<>> => fnOut[1].relevance_score = 0
        /\ fnArgs.results # <<>> =>
              /\ IsRate(fnOut[1].avg_confidence)
              /\ IsRate(fnOut[1].filter_match_score)
              /\ LET sum == 4 * fnOut[1].entity_score + 4 * fnOut[1].avg_confidence
                            + 2 * fnOut[1].filter_match_score
                 IN fnOut[1].relevance_score = (IF sum > 12000 THEN 12000 ELSE sum)
        /\ 0 <= fnOut[1].relevance_score /\ fnOut[1].relevance_score <= 10 * 1200

(* C26, the case that breaks it: more matches than entities *)
C26_RateAboveOneCase ==
    RelevanceReturned /\ fnOut[1].entity_score > 1200

(***************************************************************************)
(* Claims about the response metadata (Spec)                               *)
(***************************************************************************)
(* The strategy name the call's own request selects *)
OwnStrategy ==
    IF req[1].strategy \in {Some("rag"), Some("structured"), Some("hybrid")}
    THEN req[1].strategy[1]
    ELSE "hybrid"

(* C27: in every response, for any sequence of calls on one cache,          *)
(* metadata.search_strategy names the strategy the call's own request       *)
(* selects and metadata.total_results is the number of results.             *)
C27_MetadataDescribesOwnCall ==
    Responded =>
        /\ resp[1].metadata.search_strategy = OwnStrategy
        /\ resp[1].metadata.total_results = Len(Results)

(* C27, on a cache miss: both fields describe the call. *)
C27_HoldsOnCacheMiss ==
    (Responded /\ ran = MissSteps) =>
        /\ resp[1].metadata.search_strategy = OwnStrategy
        /\ resp[1].metadata.total_results = Len(Results)

(* C27, the count alone: it holds for cached responses too. *)
C27_TotalResultsIsLength ==
    Responded => resp[1].metadata.total_results = Len(Results)

(* C27, the case that breaks it: a call answered from the cache whose       *)
(* request names another strategy than the one recorded in the response     *)
C27_OtherStrategyHitCase ==
    /\ Responded /\ ran = HitSteps
    /\ resp[1].metadata.search_strategy # OwnStrategy

(***************************************************************************)
(* Claims about APIClient (SpecClient)                                     *)
(***************************************************************************)
ClientDone == client.phase = "done"
LastSeen == client.seen[Len(client.seen)]
IsStatus(o, codes) == o.kind = "response" /\ o.status \in codes
SleepsOnlyBetweenAttempts ==
    /\ \A i \in 1..Len(client.slept) : client.slept[i] = 2 ^ (i - 1)
    /\ client.sent >= 1 => Len(client.slept) <= client.max_retries - 1
    /\ (ClientDone /\ client.sent >= 1) => Len(client.slept) = client.sent - 1
ReturnedResponseOrRaised ==
    \/ client.made.kind = "raised"
    \/ client.made.kind = "returned" /\ client.made.value # None

(* C28: _make_request sends at most max_retries requests whatever the      *)
(* server and the transport answer, ends by returning a response or by      *)
(* raising, and sleeps 2^attempt seconds between attempts only, never       *)
(* after the last one.                                                      *)
C28_EndsWithResponseOrRaise ==
    /\ client.sent <= client.max_retries
    /\ SleepsOnlyBetweenAttempts
    /\ ClientDone => ReturnedResponseOrRaised

(* C28, for max_retries >= 1: the same statement holds, and the loop always *)
(* ends inside its last iteration.                                          *)
C28_HoldsForPositiveMaxRetries ==
    client.max_retries >= 1 =>
        /\ client.sent <= client.max_retries
        /\ SleepsOnlyBetweenAttempts
        /\ ClientDone => (ReturnedResponseOrRaised /\ client.sent >= 1)
        /\ ~ClientDone => client.attempt < client.max_retries

(* C28, the case of three attempts: two sleeps of 1 and 2 seconds, the      *)
(* third request answered, no sleep after it                                *)
C28_ThreeAttemptsCase ==
    /\ ClientDone /\ client.sent = 3
    /\ client.slept = <<1, 2>>
    /\ client.made.kind = "raised"

(* C29: a response with an error status outside retry_status_codes (400,    *)
(* 401, 404, 429) is not retried: one request is sent and search raises     *)
(* the error _handle_error_response chooses for the status.                 *)
C29_ClientErrorNotRetried ==
    (ClientDone /\ client.seen # <<>> /\ IsStatus(client.seen[1], {400, 401, 404, 429}))
        => /\ client.sent = 1
           /\ client.search = HandleErrorResponse(client.seen[1].status)

(* C29, what the code does: an error status outside retry_status_codes is   *)
(* retried like a transport error, and after the last attempt search        *)
(* raises NetworkError; no HTTPError ever leaves _make_request.             *)
C29_ClientErrorEndsAsNetworkError ==
    /\ client.made.error # "HTTPError"
    /\ (client.seen # <<>> /\ ~ClientDone) =>
          (IsStatus(LastSeen, {400, 401, 404, 429}) => Len(client.slept) = client.sent)
    /\ (ClientDone /\ client.seen # <<>> /\ IsStatus(LastSeen, {400, 401, 404, 429}))
          => /\ client.sent = client.max_retries
             /\ client.search = Raised("NetworkError", "Request failed")

(* C30: search never returns a payload taken from a response with status    *)
(* >= 500; when every one of the max_retries attempts is answered with a    *)
(* retryable status, it raises APIError 'Server error'.                     *)
C30_ServerErrorNeverReturned ==
    ClientDone =>
        /\ client.search.kind = "returned" => client.search.value[1].payload_of < 500
        /\ (/\ client.max_retries >= 1
            /\ Len(client.seen) = client.max_retries
            /\ \A i \in 1..Len(client.seen) : IsStatus(client.seen[i], {500, 502, 503, 504}))
              => client.search = Raised("APIError", "Server error")

(* C30, what the code does: the retryable response of the last attempt is   *)
(* returned by _make_request, and search returns its JSON body.             *)
C30_LastServerErrorIsReturned ==
    (ClientDone /\ client.seen # <<>> /\ IsStatus(LastSeen, {500, 502, 503, 504})) =>
        /\ client.sent = client.max_retries
        /\ client.made = Returned(Some(LastSeen))
        /\ client.search = IF LastSeen.json
                            THEN Returned(Some([payload_of |-> LastSeen.status]))
                            ELSE Raised("NetworkError", "Unexpected error")
====
